---------------------------- MODULE Spec2Model ----------------------------
(***************************************************************************)
(* Fraud-report service: the risk scoring engine (backend/risk_engine.py), *)
(* the AI collaborator boundary (backend/gemini_service.py), the report    *)
(* store (backend/database.py) and the submit / lookup handlers            *)
(* (backend/routes/reports.py).                                            *)
(*                                                                         *)
(* Text is a sequence of one-character strings, so that strip(), lower(),  *)
(* startswith() and the `in` substring test are computed, not assumed.     *)
(* A float confidence is an integer number of hundredths (0.95 is 95).     *)
(* An Optional value is <<>> (None) or <<x>>.                              *)
(***************************************************************************)
EXTENDS Integers, Sequences, FiniteSets, TLC

VARIABLES
    fraud_reports,      \* the fraud_reports table, in rowid order
    clock,              \* the last value datetime.utcnow() returned
    GENAI_AVAILABLE,    \* gemini_service.GENAI_AVAILABLE (set at import)
    GEMINI_API_KEY,     \* whether os.environ holds a non-empty GEMINI_API_KEY
    requests,           \* per submit_report invocation: position and locals
    response,           \* the response the last step sent, if it sent one
    call,               \* scoring harness: the arguments of one scoring call
    out                 \* scoring harness: what the scoring functions returned

vars == <<fraud_reports, clock, GENAI_AVAILABLE, GEMINI_API_KEY, requests,
          response, call, out>>

-----------------------------------------------------------------------------
(* Python built-ins on text *)

None == <<>>

Some(x) == <<x>>

Min(a, b) == IF a <= b THEN a ELSE b

Max(a, b) == IF a >= b THEN a ELSE b

UpperCase ==
    <<"A","B","C","D","E","F","G","H","I","J","K","L","M",
      "N","O","P","Q","R","S","T","U","V","W","X","Y","Z">>

LowerCase ==
    <<"a","b","c","d","e","f","g","h","i","j","k","l","m",
      "n","o","p","q","r","s","t","u","v","w","x","y","z">>

Digits == <<"0","1","2","3","4","5","6","7","8","9">>

Whitespace == {" ", "\t", "\n", "\r", "\f"}

\* str.lower() on one character
LowerOf == [c \in {UpperCase[i] : i \in 1..26} |->
               LowerCase[CHOOSE i \in 1..26 : UpperCase[i] = c]]

LowerChar(c) == IF c \in DOMAIN LowerOf THEN LowerOf[c] ELSE c

\* str.lower()
Lower(s) == [i \in 1..Len(s) |-> LowerChar(s[i])]

\* str.strip(): drop the leading and the trailing whitespace
Strip(s) ==
    LET keep == {i \in 1..Len(s) : s[i] \notin Whitespace}
    IN  IF keep = {} THEN <<>>
        ELSE LET first == CHOOSE i \in keep : \A j \in keep : i <= j
                 last  == CHOOSE i \in keep : \A j \in keep : i >= j
             IN  SubSeq(s, first, last)

\* str.replace(" ", "")
RemoveSpaces(s) == SelectSeq(s, LAMBDA c : c # " ")

\* whether text p occurs in s at position i
OccursAt(s, p, i) ==
    /\ i >= 1
    /\ i + Len(p) - 1 <= Len(s)
    /\ \A j \in 1..Len(p) : s[i + j - 1] = p[j]

\* s.startswith(p)
StartsWith(s, p) == OccursAt(s, p, 1)

\* p in s
Contains(s, p) == \E i \in 1..(Len(s) - Len(p) + 1) : OccursAt(s, p, i)

\* s[:n]
Take(s, n) == SubSeq(s, 1, Min(n, Len(s)))

\* str(n) / format of an integer
RECURSIVE NatToStr(_)
NatToStr(n) ==
    IF n < 10 THEN <<Digits[n + 1]>>
    ELSE NatToStr(n \div 10) \o <<Digits[(n % 10) + 1]>>

IntToStr(n) == IF n < 0 THEN <<"-">> \o NatToStr(0 - n) ELSE NatToStr(n)

\* f"{x:.0%}" of a confidence held in hundredths
Percent(c) == IntToStr(c) \o <<"%">>

\* the set of the elements of a sequence
Range(s) == {s[i] : i \in 1..Len(s)}

\* one human-readable factor: the fixed text and the interpolated parts
Factor(msg, args) == [msg |-> msg, args |-> args]

-----------------------------------------------------------------------------
(* risk_engine.py: the pattern tables *)

SCAM_KEYWORDS ==
    << <<"o","t","p">>,
       <<"k","y","c">>,
       <<"a","a","d","h","a","r">>,
       <<"a","a","d","h","a","a","r">>,
       <<"p","a","n"," ","c","a","r","d">>,
       <<"l","o","t","t","e","r","y">>,
       <<"p","r","i","z","e">>,
       <<"w","i","n","n","e","r">>,
       <<"c","o","n","g","r","a","t","u","l","a","t","i","o","n","s">>,
       <<"u","r","g","e","n","t">>,
       <<"v","e","r","i","f","y">>,
       <<"s","u","s","p","e","n","d">>,
       <<"b","l","o","c","k","e","d">>,
       <<"l","i","n","k">>,
       <<"c","l","i","c","k"," ","h","e","r","e">>,
       <<"r","u","p","e","e","s">>,
       <<"l","a","k","h","s">>,
       <<"c","r","o","r","e">>,
       <<"t","r","a","n","s","f","e","r">>,
       <<"u","p","i">>,
       <<"p","a","y","t","m">>,
       <<"p","h","o","n","e","p","e">>,
       <<"g","p","a","y">>,
       <<"g","o","o","g","l","e"," ","p","a","y">>,
       <<"l","o","a","n"," ","a","p","p","r","o","v","e","d">>,
       <<"c","r","e","d","i","t"," ","c","a","r","d">>,
       <<"i","n","s","u","r","a","n","c","e">>,
       <<"r","e","f","u","n","d">>,
       <<"c","a","s","h","b","a","c","k">>,
       <<"j","o","b"," ","o","f","f","e","r">>,
       <<"w","o","r","k"," ","f","r","o","m"," ","h","o","m","e">>,
       <<"e","a","r","n"," ","m","o","n","e","y">>,
       <<"i","n","v","e","s","t","m","e","n","t">>,
       <<"t","r","a","d","i","n","g">>,
       <<"b","i","t","c","o","i","n">>,
       <<"c","r","y","p","t","o">>,
       <<"f","o","r","e","x">>,
       <<"s","t","o","c","k"," ","t","i","p","s">>,
       <<"c","u","s","t","o","m","s">>,
       <<"c","o","u","r","i","e","r">>,
       <<"p","a","r","c","e","l">>,
       <<"f","e","d","e","x">>,
       <<"p","o","l","i","c","e">>,
       <<"c","b","i">>,
       <<"n","a","r","c","o","t","i","c","s">>,
       <<"a","r","r","e","s","t">>,
       <<"w","a","r","r","a","n","t">>,
       <<"l","e","g","a","l"," ","a","c","t","i","o","n">>,
       <<"w","h","a","t","s","a","p","p">>,
       <<"t","e","l","e","g","r","a","m">>,
       <<"b","a","n","k">>,
       <<"r","b","i">>,
       <<"s","b","i">>,
       <<"h","d","f","c">>,
       <<"i","c","i","c","i">>,
       <<"a","c","c","o","u","n","t">>,
       <<"p","a","s","s","w","o","r","d">>,
       <<"p","i","n">>,
       <<"c","v","v">>,
       <<"e","x","p","i","r","e">>,
       <<"f","r","e","e">>,
       <<"o","f","f","e","r">>,
       <<"l","i","m","i","t","e","d"," ","t","i","m","e">>,
       <<"a","c","t"," ","n","o","w">>,
       <<"i","m","m","e","d","i","a","t","e","l","y">>,
       <<"s","e","x","t","o","r","t","i","o","n">>,
       <<"v","i","d","e","o">>,
       <<"c","o","m","p","r","o","m","i","s","e">>,
       <<"b","l","a","c","k","m","a","i","l">> >>

SCAM_PHONE_PREFIXES ==
    << <<"+","9","1"," ","1","4","0">>,
       <<"1","4","0">> >>

\* Each pattern is r".*<word>.*@.*"; the table holds <word>.
SUSPICIOUS_UPI_PATTERNS ==
    << <<"p","a","y","t","m">>,
       <<"r","b","i">>,
       <<"s","b","i">>,
       <<"r","e","f","u","n","d">>,
       <<"l","u","c","k","y">>,
       <<"w","i","n","n","e","r">>,
       <<"s","u","p","p","o","r","t">>,
       <<"h","e","l","p","d","e","s","k">> >>

suspicious_tlds ==
    << <<".","x","y","z">>,
       <<".","t","o","p">>,
       <<".","b","u","z","z">>,
       <<".","c","l","u","b">>,
       <<".","i","c","u">>,
       <<".","t","k">>,
       <<".","m","l">>,
       <<".","g","a">> >>

shorteners ==
    << <<"b","i","t",".","l","y">>,
       <<"t","i","n","y","u","r","l">>,
       <<"t",".","c","o">>,
       <<"g","o","o",".","g","l">>,
       <<"i","s",".","g","d">>,
       <<"r","e","b","r","a","n","d",".","l","y">> >>

\* r"(bank|sbi|hdfc|icici|rbi|govt|gov)"
EMAIL_OFFICIAL_TERMS ==
    << <<"b","a","n","k">>,
       <<"s","b","i">>,
       <<"h","d","f","c">>,
       <<"i","c","i","c","i">>,
       <<"r","b","i">>,
       <<"g","o","v","t">>,
       <<"g","o","v">> >>

\* r"@(gmail|yahoo|hotmail|outlook)"
EMAIL_FREE_HOSTS ==
    << <<"@","g","m","a","i","l">>,
       <<"@","y","a","h","o","o">>,
       <<"@","h","o","t","m","a","i","l">>,
       <<"@","o","u","t","l","o","o","k">> >>

Http == <<"h","t","t","p">>

HttpScheme == <<"h","t","t","p",":","/","/">>

\* the characters of the regex class [a-z0-9]
AlnumLower == {LowerCase[i] : i \in 1..26} \cup {Digits[i] : i \in 1..10}

\* the first of the table indices whose entry passed the test, as an Optional:
\* the code's "for entry in table: if test: ...; break"
FirstMatch(hits) ==
    IF hits = {} THEN None
    ELSE Some(CHOOSE i \in hits : \A j \in hits : i <= j)

\* sum(scores)
RECURSIVE Sum(_)
Sum(scores) == IF scores = <<>> THEN 0 ELSE Head(scores) + Sum(Tail(scores))

\* the part of s that "." can match from its start: up to the first newline
FirstLine(s) ==
    LET nl == {i \in 1..Len(s) : s[i] = "\n"}
    IN  IF nl = {} THEN s
        ELSE SubSeq(s, 1, (CHOOSE i \in nl : \A j \in nl : i <= j) - 1)

\* re.match(r".*<word>.*@.*", value)
MatchesUpiPattern(word, value) ==
    LET line == FirstLine(value)
    IN  \E i \in 1..Len(line) :
            /\ OccursAt(line, word, i)
            /\ \E k \in (i + Len(word))..Len(line) : line[k] = "@"

\* re.match(r"^[a-z0-9]{10,}@", value)
MatchesGeneratedHandle(value) ==
    \E n \in 10..(Len(value) - 1) :
        /\ \A j \in 1..n : value[j] \in AlnumLower
        /\ value[n + 1] = "@"

-----------------------------------------------------------------------------
(* risk_engine.py: the four sub-scores *)

\* the list `found` that the loop over SCAM_KEYWORDS builds
found_keywords(description) ==
    LET description_lower == Lower(description)
    IN  SelectSeq(SCAM_KEYWORDS,
                  LAMBDA keyword : Contains(description_lower, keyword))

\* a plausible slip: the description is matched without lower()
_keyword_score_case_sensitive(description) ==
    LET found == SelectSeq(SCAM_KEYWORDS,
                           LAMBDA keyword : Contains(description, keyword))
    IN  IF found = <<>> THEN [score |-> 0, factors |-> <<>>]
        ELSE [score   |-> Min(Len(found) * 5, 30),
              factors |-> << Factor("Contains scam keywords",
                                    Take(found, 5) \o
                                    (IF Len(found) > 5
                                     THEN << <<".",".",".">> >> ELSE <<>>)) >>]

_keyword_score(description) ==
    LET found == found_keywords(description)
    IN  IF found = <<>> THEN [score |-> 0, factors |-> <<>>]
        ELSE [score   |-> Min(Len(found) * 5, 30),
              factors |-> << Factor("Contains scam keywords",
                                    Take(found, 5) \o
                                    (IF Len(found) > 5
                                     THEN << <<".",".",".">> >> ELSE <<>>)) >>]

\* a plausible slip: every number written with "+" counts as international
_check_phone_any_plus(value) ==
    LET hit == FirstMatch({i \in 1..Len(SCAM_PHONE_PREFIXES) :
                   StartsWith(value, RemoveSpaces(Lower(SCAM_PHONE_PREFIXES[i])))})
        spam == hit # None
        intl == StartsWith(value, <<"+">>)
    IN  [scores  |-> (IF spam THEN <<15>> ELSE <<>>) \o
                     (IF intl THEN <<10>> ELSE <<>>),
         factors |-> (IF spam
                      THEN << Factor("Phone number starts with known spam prefix",
                                     << SCAM_PHONE_PREFIXES[hit[1]] >>) >>
                      ELSE <<>>) \o
                     (IF intl
                      THEN << Factor("International number (non-Indian)", <<>>) >>
                      ELSE <<>>)]

_check_phone(value) ==
    LET hit == FirstMatch({i \in 1..Len(SCAM_PHONE_PREFIXES) :
                   StartsWith(value, RemoveSpaces(Lower(SCAM_PHONE_PREFIXES[i])))})
        spam == hit # None
        intl == StartsWith(value, <<"+">>) /\ ~StartsWith(value, <<"+","9","1">>)
    IN  [scores  |-> (IF spam THEN <<15>> ELSE <<>>) \o
                     (IF intl THEN <<10>> ELSE <<>>),
         factors |-> (IF spam
                      THEN << Factor("Phone number starts with known spam prefix",
                                     << SCAM_PHONE_PREFIXES[hit[1]] >>) >>
                      ELSE <<>>) \o
                     (IF intl
                      THEN << Factor("International number (non-Indian)", <<>>) >>
                      ELSE <<>>)]

_check_upi(value) ==
    LET lure == FirstMatch({i \in 1..Len(SUSPICIOUS_UPI_PATTERNS) :
                    MatchesUpiPattern(SUSPICIOUS_UPI_PATTERNS[i], value)}) # None
        generated == MatchesGeneratedHandle(value)
    IN  [scores  |-> (IF lure THEN <<15>> ELSE <<>>) \o
                     (IF generated THEN <<5>> ELSE <<>>),
         factors |-> (IF lure
                      THEN << Factor("UPI ID matches suspicious pattern", <<>>) >>
                      ELSE <<>>) \o
                     (IF generated
                      THEN << Factor("UPI ID appears randomly generated", <<>>) >>
                      ELSE <<>>)]

_check_website(value) ==
    LET url == IF ~StartsWith(value, Http) THEN HttpScheme \o value ELSE value
        tld == FirstMatch({i \in 1..Len(suspicious_tlds) : Contains(url, suspicious_tlds[i])})
        short == FirstMatch({i \in 1..Len(shorteners) : Contains(url, shorteners[i])}) # None
    IN  [scores  |-> (IF tld # None THEN <<15>> ELSE <<>>) \o
                     (IF short THEN <<10>> ELSE <<>>),
         factors |-> (IF tld # None
                      THEN << Factor("Uses suspicious domain extension",
                                     << suspicious_tlds[tld[1]] >>) >>
                      ELSE <<>>) \o
                     (IF short
                      THEN << Factor("Uses URL shortener (often used for phishing)",
                                     <<>>) >>
                      ELSE <<>>)]

_check_email(value) ==
    IF /\ \E i \in 1..Len(EMAIL_OFFICIAL_TERMS) :
              Contains(value, EMAIL_OFFICIAL_TERMS[i])
       /\ \E i \in 1..Len(EMAIL_FREE_HOSTS) : Contains(value, EMAIL_FREE_HOSTS[i])
    THEN [scores  |-> <<20>>,
          factors |-> << Factor(
              "Email impersonates official entity using free email service",
              <<>>) >>]
    ELSE [scores |-> <<>>, factors |-> <<>>]

_identifier_pattern_score(identifier_type, identifier_value) ==
    LET value == Lower(Strip(identifier_value))
        checked ==
            CASE identifier_type = "phone"   -> _check_phone(value)
              [] identifier_type = "upi"     -> _check_upi(value)
              [] identifier_type = "website" -> _check_website(value)
              [] identifier_type = "email"   -> _check_email(value)
              [] OTHER -> [scores |-> <<>>, factors |-> <<>>]
    IN  [score |-> Min(Sum(checked.scores), 25), factors |-> checked.factors]

\* a plausible slip: "< 3" for "<= 3"
_report_frequency_score_strict(report_count) ==
    IF report_count = 0 THEN [score |-> 0, factors |-> <<>>]
    ELSE IF report_count = 1
    THEN [score |-> 5, factors |-> << Factor("Previously reported once", <<>>) >>]
    ELSE IF report_count < 3
    THEN [score |-> 15,
          factors |-> << Factor("Reported N times before",
                                << IntToStr(report_count) >>) >>]
    ELSE IF report_count <= 10
    THEN [score |-> 20,
          factors |-> << Factor("Frequently reported (N times)",
                                << IntToStr(report_count) >>) >>]
    ELSE [score |-> 25,
          factors |-> << Factor("Heavily reported (N times) - likely confirmed scam",
                                << IntToStr(report_count) >>) >>]

_report_frequency_score(report_count) ==
    IF report_count = 0 THEN [score |-> 0, factors |-> <<>>]
    ELSE IF report_count = 1
    THEN [score |-> 5, factors |-> << Factor("Previously reported once", <<>>) >>]
    ELSE IF report_count <= 3
    THEN [score |-> 15,
          factors |-> << Factor("Reported N times before",
                                << IntToStr(report_count) >>) >>]
    ELSE IF report_count <= 10
    THEN [score |-> 20,
          factors |-> << Factor("Frequently reported (N times)",
                                << IntToStr(report_count) >>) >>]
    ELSE [score |-> 25,
          factors |-> << Factor("Heavily reported (N times) - likely confirmed scam",
                                << IntToStr(report_count) >>) >>]

\* a plausible slip: "> 0.9" for ">= 0.9"
_ai_confidence_score_strict(ai_confidence) ==
    IF ai_confidence = None THEN [score |-> 0, factors |-> <<>>]
    ELSE LET c == ai_confidence[1]
         IN  IF c > 90
             THEN [score |-> 20,
                   factors |-> << Factor("AI highly confident this is a scam",
                                         << Percent(c) >>) >>]
             ELSE IF c >= 70
             THEN [score |-> 15,
                   factors |-> << Factor("AI moderately confident this is a scam",
                                         << Percent(c) >>) >>]
             ELSE IF c >= 50
             THEN [score |-> 10,
                   factors |-> << Factor("AI suspects this may be a scam",
                                         << Percent(c) >>) >>]
             ELSE IF c >= 30
             THEN [score |-> 5,
                   factors |-> << Factor("AI sees some suspicious signals",
                                         << Percent(c) >>) >>]
             ELSE [score |-> 0,
                   factors |-> << Factor("AI considers this low risk",
                                         << Percent(c) >>) >>]

\* ai_confidence is an Optional confidence in hundredths
_ai_confidence_score(ai_confidence) ==
    IF ai_confidence = None THEN [score |-> 0, factors |-> <<>>]
    ELSE LET c == ai_confidence[1]
         IN  IF c >= 90
             THEN [score |-> 20,
                   factors |-> << Factor("AI highly confident this is a scam",
                                         << Percent(c) >>) >>]
             ELSE IF c >= 70
             THEN [score |-> 15,
                   factors |-> << Factor("AI moderately confident this is a scam",
                                         << Percent(c) >>) >>]
             ELSE IF c >= 50
             THEN [score |-> 10,
                   factors |-> << Factor("AI suspects this may be a scam",
                                         << Percent(c) >>) >>]
             ELSE IF c >= 30
             THEN [score |-> 5,
                   factors |-> << Factor("AI sees some suspicious signals",
                                         << Percent(c) >>) >>]
             ELSE [score |-> 0,
                   factors |-> << Factor("AI considers this low risk",
                                         << Percent(c) >>) >>]

\* a plausible slip: "> 75" for ">= 75"
_determine_level_strict(score) ==
    IF score > 75 THEN "CRITICAL"
    ELSE IF score >= 50 THEN "HIGH"
    ELSE IF score >= 25 THEN "MEDIUM"
    ELSE "LOW"

_determine_level(score) ==
    IF score >= 75 THEN "CRITICAL"
    ELSE IF score >= 50 THEN "HIGH"
    ELSE IF score >= 25 THEN "MEDIUM"
    ELSE "LOW"

NoFactors == Factor("No significant risk factors detected", <<>>)

\* a plausible slip: neither the keyword cap nor the final clamp is applied
calculate_risk_score_uncapped(identifier_type, identifier_value, description, report_count, ai_confidence) ==
    LET kw   == _keyword_score(description)
        id   == _identifier_pattern_score(identifier_type, identifier_value)
        freq == _report_frequency_score(report_count)
        ai   == _ai_confidence_score(ai_confidence)
        total_score == Len(found_keywords(description)) * 5
                       + id.score + freq.score + ai.score
        all_factors == kw.factors \o id.factors \o freq.factors \o ai.factors
    IN  [score   |-> total_score,
         level   |-> _determine_level(total_score),
         factors |-> IF all_factors = <<>> THEN <<NoFactors>> ELSE all_factors]

\* a plausible slip: the sentinel is decided on the score, not on the factors
calculate_risk_score_sentinel_on_zero(identifier_type, identifier_value, description, report_count, ai_confidence) ==
    LET kw   == _keyword_score(description)
        id   == _identifier_pattern_score(identifier_type, identifier_value)
        freq == _report_frequency_score(report_count)
        ai   == _ai_confidence_score(ai_confidence)
        total_score == Min(Max(kw.score + id.score + freq.score + ai.score, 0), 100)
        all_factors == kw.factors \o id.factors \o freq.factors \o ai.factors
    IN  [score   |-> total_score,
         level   |-> _determine_level(total_score),
         factors |-> IF total_score = 0 THEN <<NoFactors>> ELSE all_factors]

calculate_risk_score(identifier_type, identifier_value, description, report_count, ai_confidence) ==
    LET kw   == _keyword_score(description)
        id   == _identifier_pattern_score(identifier_type, identifier_value)
        freq == _report_frequency_score(report_count)
        ai   == _ai_confidence_score(ai_confidence)
        total_score == Min(Max(kw.score + id.score + freq.score + ai.score, 0), 100)
        all_factors == kw.factors \o id.factors \o freq.factors \o ai.factors
    IN  [score   |-> total_score,
         level   |-> _determine_level(total_score),
         factors |-> IF all_factors = <<>> THEN <<NoFactors>> ELSE all_factors]


-----------------------------------------------------------------------------
(* The texts the checks run on *)

DescUrgent ==
    <<"U","R","G","E","N","T","!"," ","Y","o","u","r"," ","a","c","c","o","u","n","t",
      " ","w","i","l","l"," ","b","e"," ","b","l","o","c","k","e","d",","," ",
      "v","e","r","i","f","y"," ","K","Y","C"," ","n","o","w"," ","o","r"," ",
      "p","a","y"," ","v","i","a"," ","U","P","I">>

DescPlain ==
    <<"h","e"," ","c","a","l","l","e","d"," ","m","e"," ","t","w","i","c","e"," ",
      "t","o","d","a","y">>

DescMany ==
    <<"u","r","g","e","n","t"," ","k","y","c"," ","o","t","p",":"," ",
      "v","e","r","i","f","y"," ","y","o","u","r"," ","b","a","n","k"," ",
      "a","c","c","o","u","n","t"," ","o","r"," ","i","t"," ","i","s"," ",
      "b","l","o","c","k","e","d">>

DescShort ==
    <<"O","T","P"," ","k","y","c"," ","u","p","i"," ","p","i","n"," ",
      "c","v","v"," ","r","b","i">>

DescOtp == <<"S","h","a","r","e"," ","t","h","e"," ","O","T","P"," ","n","o","w">>

PhoneSpaced == <<"+","9","1"," ","1","4","0"," ","1","2","3","4","5","6","7">>

PhoneCompact == <<"+","9","1","1","4","0","1","2","3","4","5","6","7">>

PhoneBare == <<"1","4","0","1","2","3","4","5","6","7">>

PhoneForeign == <<"+","1"," ","1","4","0"," ","5","5","5">>

UpiPadded == <<" ","R","e","f","u","n","d","@","U","P","I"," ">>

UpiGenerated ==
    <<"9","8","7","6","5","4","3","2","1","0","a","b","@","y","b","l">>

SiteShort == <<"w","i","n",".","x","y","z","/","b","i","t",".","l","y">>

SitePadded == <<" ","W","I","N",".","x","y","z","/","b","i","t",".","l","y"," ">>

SiteShouted ==
    <<"\t","W","i","n",".","X","Y","Z","/","B","i","t",".","l","y"," "," ">>

MailBank ==
    <<"s","b","i",".","c","a","r","e","@","g","m","a","i","l",".","c","o","m">>


-----------------------------------------------------------------------------
(* gemini_service.py: the AI collaborator boundary.                        *)
(*                                                                         *)
(* A reply is what model.generate_content(...) does: it raises, or it      *)
(* returns a text.  A text either is no JSON at all (json.loads raises     *)
(* JSONDecodeError) or is a JSON value; an object is a function from its   *)
(* keys to JSON values [t |-> type, v |-> value].  A Python call returns   *)
(* Return(x) or ends in Raise(exception).                                  *)

Return(x) == [ok |-> TRUE, value |-> x]

Raise(exc) == [ok |-> FALSE, exc |-> exc]

JBool(b) == [t |-> "bool", v |-> b]

JNum(n) == [t |-> "num", v |-> n]

JStr(x) == [t |-> "str", v |-> x]


\* dict.get(key, default)
Get(object, key, default) == IF key \in DOMAIN object THEN object[key] ELSE default

\* bool(x)
PyBool(x) ==
    CASE x.t = "bool" -> x.v
      [] x.t = "num"  -> x.v # 0
      [] x.t = "str"  -> x.v # ""
      [] x.t = "null" -> FALSE

\* the decimal texts float() accepts among the texts the replies use
DecimalTexts == [x \in {"0.8"} |-> 80]

\* float(x), in hundredths
PyFloat(x) ==
    CASE x.t = "num"  -> Return(x.v)
      [] x.t = "bool" -> Return(IF x.v THEN 100 ELSE 0)
      [] x.t = "str"  -> IF x.v \in DOMAIN DecimalTexts
                         THEN Return(DecimalTexts[x.v])
                         ELSE Raise("ValueError")
      [] x.t = "null" -> Raise("TypeError")

\* str(x)
PyStr(x) ==
    CASE x.t = "str"  -> x.v
      [] x.t = "null" -> "None"
      [] x.t = "bool" -> IF x.v THEN "True" ELSE "False"
      [] x.t = "num"  -> "number"

AIResult(is_scam, confidence, scam_type, explanation, advice, error) ==
    [is_scam |-> is_scam, confidence |-> confidence, scam_type |-> scam_type,
     explanation |-> explanation, advice |-> advice, error |-> error]

\* the exceptions the except clause of _parse_response catches
ParseCaught == {"JSONDecodeError", "ValueError", "KeyError"}

ParseFallback(text, exc) ==
    AIResult(FALSE, 0, "unknown", text.raw,
             "Could not parse AI response. Please try again.",
             Some("Parse error: " \o exc))

_parse_response(text) ==
    IF text.json = None THEN Return(ParseFallback(text, "JSONDecodeError"))
    ELSE LET result == text.json[1]
         IN  IF result.t # "object" THEN Raise("AttributeError")
             ELSE LET confidence == PyFloat(Get(result.v, "confidence", JNum(0)))
                  IN  IF confidence.ok
                      THEN Return(AIResult(
                               PyBool(Get(result.v, "is_scam", JBool(FALSE))),
                               confidence.value,
                               PyStr(Get(result.v, "scam_type", JStr("unknown"))),
                               PyStr(Get(result.v, "explanation", JStr(""))),
                               PyStr(Get(result.v, "advice", JStr(""))),
                               None))
                      ELSE IF confidence.exc \in ParseCaught
                      THEN Return(ParseFallback(text, confidence.exc))
                      ELSE Raise(confidence.exc)

\* model.generate_content(user_prompt), then _parse_response(response.text)
generate_and_parse(reply) ==
    IF reply.kind = "raise" THEN Raise(reply.exc) ELSE _parse_response(reply)

\* a plausible slip: only the parse errors are caught around the call, so any
\* other exception leaves the function
analyze_scam_report_narrow_except(description, identifier_type, identifier_value, reply) ==
    IF ~GENAI_AVAILABLE
    THEN Return(AIResult(FALSE, 0, "unknown",
             "AI analysis unavailable - google-generativeai package not installed.",
             "Install the package: pip install google-generativeai",
             Some("google-generativeai not installed")))
    ELSE IF ~GEMINI_API_KEY
    THEN Return(AIResult(FALSE, 0, "unknown",
             "AI analysis unavailable - no API key configured.",
             "Set the GEMINI_API_KEY environment variable to enable AI analysis.",
             Some("No GEMINI_API_KEY set")))
    ELSE generate_and_parse(reply)

analyze_scam_report(description, identifier_type, identifier_value, reply) ==
    IF ~GENAI_AVAILABLE
    THEN Return(AIResult(FALSE, 0, "unknown",
             "AI analysis unavailable - google-generativeai package not installed.",
             "Install the package: pip install google-generativeai",
             Some("google-generativeai not installed")))
    ELSE IF ~GEMINI_API_KEY
    THEN Return(AIResult(FALSE, 0, "unknown",
             "AI analysis unavailable - no API key configured.",
             "Set the GEMINI_API_KEY environment variable to enable AI analysis.",
             Some("No GEMINI_API_KEY set")))
    ELSE LET done == generate_and_parse(reply)
         IN  IF done.ok THEN done
             ELSE Return(AIResult(FALSE, 0, "unknown",
                      "AI analysis failed: " \o done.exc,
                      "The AI service is temporarily unavailable. Risk score is based on pattern matching only.",
                      Some(done.exc)))

-----------------------------------------------------------------------------
(* database.py: the fraud_reports table *)

\* the normal form under which identifiers are stored and compared
Normalize(identifier_value) == Lower(Strip(identifier_value))

\* SELECT COUNT(*) FROM fraud_reports WHERE identifier_value = ?
get_report_count_for_identifier(identifier_value) ==
    Cardinality({i \in 1..Len(fraud_reports) :
        fraud_reports[i].identifier_value = Normalize(identifier_value)})

\* The row insert_report adds; its id is the next rowid (rows are never deleted)
\* and reported_at the clock reading `now`.
insert_report(identifier_type, identifier_value, description, category, risk_score, risk_level, risk_factors, ai_analysis, reporter_name, now) ==
    [id               |-> Len(fraud_reports) + 1,
     identifier_type  |-> identifier_type,
     identifier_value |-> Normalize(identifier_value),
     description      |-> description,
     category         |-> category,
     risk_score       |-> risk_score,
     risk_level       |-> risk_level,
     risk_factors     |-> risk_factors,
     ai_analysis      |-> ai_analysis,
     reporter_name    |-> reporter_name,
     reported_at      |-> now]

\* a plausible slip: ORDER BY reported_at ASC
get_reports_by_identifier_ascending(identifier_value) ==
    LET ids == {i \in 1..Len(fraud_reports) :
                   fraud_reports[i].identifier_value = Normalize(identifier_value)}
        n == Cardinality(ids)
        orders == {f \in [1..n -> ids] :
                      /\ \A a, b \in 1..n : a # b => f[a] # f[b]
                      /\ \A a, b \in 1..n : a < b =>
                             fraud_reports[f[a]].reported_at <=
                             fraud_reports[f[b]].reported_at}
    IN  {[k \in 1..n |-> fraud_reports[f[k]]] : f \in orders}

\* a plausible slip: the lookup compares the identifier as it was typed
get_reports_by_identifier_raw(identifier_value) ==
    LET ids == {i \in 1..Len(fraud_reports) :
                   fraud_reports[i].identifier_value = identifier_value}
        n == Cardinality(ids)
        orders == {f \in [1..n -> ids] :
                      /\ \A a, b \in 1..n : a # b => f[a] # f[b]
                      /\ \A a, b \in 1..n : a < b =>
                             fraud_reports[f[a]].reported_at >=
                             fraud_reports[f[b]].reported_at}
    IN  {[k \in 1..n |-> fraud_reports[f[k]]] : f \in orders}

\* SELECT * FROM fraud_reports WHERE identifier_value = ? ORDER BY reported_at
\* DESC: every row list the query may return (rows with equal reported_at come
\* in an order the query does not fix)
get_reports_by_identifier(identifier_value) ==
    LET ids == {i \in 1..Len(fraud_reports) :
                   fraud_reports[i].identifier_value = Normalize(identifier_value)}
        n == Cardinality(ids)
        orders == {f \in [1..n -> ids] :
                      /\ \A a, b \in 1..n : a # b => f[a] # f[b]
                      /\ \A a, b \in 1..n : a < b =>
                             fraud_reports[f[a]].reported_at >=
                             fraud_reports[f[b]].reported_at}
    IN  {[k \in 1..n |-> fraud_reports[f[k]]] : f \in orders}

-----------------------------------------------------------------------------
(* routes/reports.py: submit_report and lookup_identifier                   *)
(*                                                                         *)
(* A handler touches the store twice, each time through a connection of    *)
(* its own that is opened, used, committed and closed inside the database  *)
(* function (database.py:71-87, 123-132): the count at reports.py:21 and   *)
(* the insert at reports.py:46.  No transaction or lock spans the two, so  *)
(* the steps of handlers that overlap interleave at those calls and at the *)
(* await between them.  Handlers overlap when the application is served by *)
(* more than one process on the same database file; analyze_scam_report as *)
(* written calls the blocking generate_content and never suspends, so the  *)
(* single server process main.py:84 starts runs one handler at a time.     *)

NumRequests == 2

Requests == 1..NumRequests

\* the request bodies (ReportCreate) that arrive
ReportInputs ==
    << [identifier_type |-> "website", identifier_value |-> SitePadded,
        description |-> DescShort, reporter_name |-> "Anonymous"],
       [identifier_type |-> "phone", identifier_value |-> PhoneSpaced,
        description |-> DescPlain, reporter_name |-> "Asha"],
       [identifier_type |-> "other", identifier_value |-> SiteShort,
        description |-> DescOtp, reporter_name |-> "Anonymous"] >>

\* the identifiers that are looked up
LookupIdentifiers == <<SiteShort, PhoneSpaced, SiteShouted>>

Object(members) == [t |-> "object", v |-> members]

\* what the collaborator may do on one call
Replies ==
    << [kind |-> "raise", exc |-> "ConnectionError"],
       [kind |-> "text", raw |-> "Sorry, I cannot help", json |-> None],
       [kind |-> "text", raw |-> "[]", json |-> Some([t |-> "array", v |-> <<>>])],
       [kind |-> "text", raw |-> "{scam 0.95}",
        json |-> Some(Object([is_scam |-> JBool(TRUE), confidence |-> JNum(95),
                              scam_type |-> JStr("KYC update scam"),
                              explanation |-> JStr("asks for KYC"),
                              advice |-> JStr("do not reply")]))],
       [kind |-> "text", raw |-> "{no scam 0.95}",
        json |-> Some(Object([is_scam |-> JBool(FALSE), confidence |-> JNum(95),
                              scam_type |-> JStr("unknown")]))],
       [kind |-> "text", raw |-> "{scam 0.2}",
        json |-> Some(Object([is_scam |-> JBool(TRUE), confidence |-> JNum(20)]))],
       [kind |-> "text", raw |-> "{scam high}",
        json |-> Some(Object([is_scam |-> JBool(TRUE),
                              confidence |-> JStr("high")]))] >>

Idle ==
    [pc |-> "idle", report |-> None, report_count |-> None, reply |-> None,
     ai_result |-> None, report_id |-> None]

\* a plausible slip: the confidence is passed whatever is_scam says
derive_ai_confidence_always(ai_result) == Some(ai_result.confidence)

\* ai_result.get("confidence") if ai_result.get("is_scam") else None
derive_ai_confidence(ai_result) ==
    IF ai_result.is_scam THEN Some(ai_result.confidence) ELSE None

\* category = ai_result.get("scam_type", "unknown"), "suspected_scam" when the
\* AI flagged a scam without naming its type
derive_category(ai_result) ==
    IF ai_result.scam_type = "unknown" /\ ai_result.is_scam
    THEN "suspected_scam"
    ELSE ai_result.scam_type

\* submit_report up to its await: the request arrives and the prior reports of
\* its identifier are counted (requests are numbered in their order of arrival)
SubmitCount(r, report) ==
    /\ requests[r].pc = "idle"
    /\ \A q \in 1..(r - 1) : requests[q].pc # "idle"
    /\ requests' = [requests EXCEPT ![r] =
           [@ EXCEPT !.pc = "analyze",
                     !.report = Some(report),
                     !.report_count =
                         Some(get_report_count_for_identifier(report.identifier_value))]]
    /\ response' = None
    /\ UNCHANGED <<fraud_reports, clock, GENAI_AVAILABLE, GEMINI_API_KEY, call, out>>

\* await analyze_scam_report(...): an exception that left it would end the
\* handler there
SubmitAnalyze(r, reply) ==
    /\ requests[r].pc = "analyze"
    /\ LET report == requests[r].report[1]
           ai == analyze_scam_report(report.description, report.identifier_type,
                                     report.identifier_value, reply)
           \* the reply of generate_content, when the call was made at all
           called == IF GENAI_AVAILABLE /\ GEMINI_API_KEY THEN Some(reply) ELSE None
       IN  requests' = [requests EXCEPT ![r] =
               IF ai.ok
               THEN [@ EXCEPT !.pc = "insert", !.reply = called,
                              !.ai_result = Some(ai.value)]
               ELSE [@ EXCEPT !.pc = "failed", !.reply = called]]
    /\ response' = None
    /\ UNCHANGED <<fraud_reports, clock, GENAI_AVAILABLE, GEMINI_API_KEY, call, out>>

\* a plausible slip: the handler gives up when the AI analysis carries an error
SubmitInsert_abort_on_ai_error(r, now) ==
    /\ requests[r].pc = "insert"
    /\ requests[r].ai_result[1].error # None
    /\ requests' = [requests EXCEPT ![r] = [@ EXCEPT !.pc = "failed"]]
    /\ response' = None
    /\ clock' = now
    /\ UNCHANGED <<fraud_reports, GENAI_AVAILABLE, GEMINI_API_KEY, call, out>>

\* a plausible slip: the insert also rewrites the assessment of the reports
\* already stored for the identifier
SubmitInsert_backfill(r, now) ==
    /\ requests[r].pc = "insert"
    /\ \E report \in {requests[r].report[1]}, ai_result \in {requests[r].ai_result[1]} :
       \E risk \in {calculate_risk_score(report.identifier_type,
                        report.identifier_value, report.description,
                        requests[r].report_count[1],
                        derive_ai_confidence(ai_result))} :
       \E row \in {insert_report(report.identifier_type, report.identifier_value,
                       report.description, derive_category(ai_result), risk.score,
                       risk.level, risk.factors, ai_result, report.reporter_name,
                       now)} :
           /\ fraud_reports' = Append(
                  [i \in 1..Len(fraud_reports) |->
                      IF fraud_reports[i].identifier_value = row.identifier_value
                      THEN [fraud_reports[i] EXCEPT !.risk_score = risk.score,
                                                    !.risk_level = risk.level,
                                                    !.risk_factors = risk.factors]
                      ELSE fraud_reports[i]], row)
           /\ requests' = [requests EXCEPT ![r] =
                  [@ EXCEPT !.pc = "done", !.report_id = Some(row.id)]]
           /\ response' = Some([kind |-> "submit",
                                message |-> "Report submitted successfully",
                                report_id |-> row.id, risk |-> Some(risk),
                                ai_analysis |-> ai_result])
    /\ clock' = now
    /\ UNCHANGED <<GENAI_AVAILABLE, GEMINI_API_KEY, call, out>>

\* the rest of submit_report: score, derive the category, insert, respond
\* (each local is bound once, as the handler computes it once)
SubmitInsert(r, now) ==
    /\ requests[r].pc = "insert"
    /\ \E report \in {requests[r].report[1]}, ai_result \in {requests[r].ai_result[1]} :
       \E risk \in {calculate_risk_score(report.identifier_type,
                        report.identifier_value, report.description,
                        requests[r].report_count[1],
                        derive_ai_confidence(ai_result))} :
       \E row \in {insert_report(report.identifier_type, report.identifier_value,
                       report.description, derive_category(ai_result), risk.score,
                       risk.level, risk.factors, ai_result, report.reporter_name,
                       now)} :
           /\ fraud_reports' = Append(fraud_reports, row)
           /\ requests' = [requests EXCEPT ![r] =
                  [@ EXCEPT !.pc = "done", !.report_id = Some(row.id)]]
           /\ response' = Some([kind |-> "submit",
                                message |-> "Report submitted successfully",
                                report_id |-> row.id, risk |-> Some(risk),
                                ai_analysis |-> ai_result])
    /\ clock' = now
    /\ UNCHANGED <<GENAI_AVAILABLE, GEMINI_API_KEY, call, out>>

\* a plausible slip: the count is not passed, so the engine takes its default 0
Lookup_default_count(identifier) ==
    /\ \E reports \in get_reports_by_identifier(identifier) :
       \E report_count \in {Len(reports)} :
       \E risk \in {IF report_count > 0
                    THEN Some(calculate_risk_score(reports[1].identifier_type,
                                  identifier, reports[1].description, 0, None))
                    ELSE None} :
           response' = Some([kind |-> "lookup", identifier |-> identifier,
                             report_count |-> report_count, risk |-> risk,
                             reports |-> reports])
    /\ UNCHANGED <<fraud_reports, clock, GENAI_AVAILABLE, GEMINI_API_KEY,
                   requests, call, out>>

\* lookup_identifier
Lookup(identifier) ==
    /\ \E reports \in get_reports_by_identifier(identifier) :
       \E report_count \in {Len(reports)} :
       \E risk \in {IF report_count > 0
                    THEN Some(calculate_risk_score(reports[1].identifier_type,
                                  identifier, reports[1].description,
                                  report_count, None))
                    ELSE None} :
           response' = Some([kind |-> "lookup", identifier |-> identifier,
                             report_count |-> report_count, risk |-> risk,
                             reports |-> reports])
    /\ UNCHANGED <<fraud_reports, clock, GENAI_AVAILABLE, GEMINI_API_KEY,
                   requests, call, out>>

\* the replies the collaborator gives to analysis-only requests
AnalysisReplies == <<Replies[1], Replies[4]>>

\* routes/analysis.py analyze_content: the AI analysis of a message, answered
\* without creating a report (an exception leaving the collaborator would be
\* answered as a server error)
AnalyzeContent(message, reply) ==
    /\ \E result \in {analyze_scam_report(message, None, None, reply)} :
           response' = IF result.ok
                       THEN Some([kind |-> "analysis", ai_analysis |-> result.value])
                       ELSE Some([kind |-> "error", exc |-> result.exc])
    /\ UNCHANGED <<fraud_reports, clock, GENAI_AVAILABLE, GEMINI_API_KEY,
                   requests, call, out>>

\* datetime.utcnow(): the reading does not go back, and two inserts may read
\* the same instant (the first insert has no earlier one to tie with)
UtcNow == IF fraud_reports = <<>> THEN {clock + 1} ELSE {clock, clock + 1}

Init ==
    /\ fraud_reports = <<>>
    /\ clock = 0
    /\ GENAI_AVAILABLE \in BOOLEAN
    /\ GEMINI_API_KEY \in BOOLEAN
    /\ requests = [r \in Requests |-> Idle]
    /\ response = None
    /\ call = None
    /\ out = None

Next ==
    \/ \E r \in Requests, i \in 1..Len(ReportInputs) : SubmitCount(r, ReportInputs[i])
    \/ \E r \in Requests, i \in 1..Len(Replies) : SubmitAnalyze(r, Replies[i])
    \/ \E r \in Requests, now \in UtcNow : SubmitInsert(r, now)
    \/ \E i \in 1..Len(LookupIdentifiers) : Lookup(LookupIdentifiers[i])
    \/ \E i \in 1..Len(AnalysisReplies) : AnalyzeContent(DescOtp, AnalysisReplies[i])

Spec == Init /\ [][Next]_vars

\* Every handler that has started keeps running: the collaborator call returns
\* and the store accepts the insert.  SubmitInsert(r, now) is enabled exactly
\* when request r is at "insert" and every step of it leaves "insert", so weak
\* fairness on it is the second conjunct, written without ENABLED.
FairSpec ==
    /\ Spec
    /\ \A r \in Requests :
           /\ WF_vars(\E i \in 1..Len(Replies) : SubmitAnalyze(r, Replies[i]))
           /\ []<>(requests[r].pc # "insert")

-----------------------------------------------------------------------------
(* Scoring harness: one call of the scoring functions on arguments drawn   *)
(* from bounded sets.                                                      *)

MaxReportCount == 11

\* (identifier_type, identifier_value) pairs: each value under its own type,
\* and values under a type they were not written for
ScoreIdentifiers ==
    { <<"phone", PhoneSpaced>>, <<"phone", PhoneCompact>>, <<"phone", PhoneBare>>,
      <<"phone", PhoneForeign>>, <<"upi", UpiPadded>>, <<"upi", UpiGenerated>>,
      <<"upi", MailBank>>, <<"website", SitePadded>>, <<"website", MailBank>>,
      <<"email", MailBank>>, <<"email", UpiPadded>>, <<"other", PhoneCompact>> }

ScoreDescriptions == {DescUrgent, DescPlain, DescOtp, DescMany}

\* hundredths; float() does not clamp what the model answered, so values
\* outside [0, 1] are arguments too
ScoreConfidences ==
    {None} \cup {Some(c) : c \in {29, 30, 49, 50, 69, 70, 89, 90, 150}}

ScoreCalls ==
    { [identifier_type |-> id[1], identifier_value |-> id[2], description |-> d,
       report_count |-> n, ai_confidence |-> c] :
      id \in ScoreIdentifiers, d \in ScoreDescriptions,
      n \in 0..MaxReportCount, c \in ScoreConfidences }

Pending == [pending |-> TRUE]

Evaluate ==
    /\ out = Pending
    /\ out' = [pending |-> FALSE,
               kw   |-> _keyword_score(call.description),
               id   |-> _identifier_pattern_score(call.identifier_type,
                                                  call.identifier_value),
               freq |-> _report_frequency_score(call.report_count),
               ai   |-> _ai_confidence_score(call.ai_confidence),
               risk |-> calculate_risk_score(call.identifier_type,
                            call.identifier_value, call.description,
                            call.report_count, call.ai_confidence)]
    /\ UNCHANGED <<fraud_reports, clock, GENAI_AVAILABLE, GEMINI_API_KEY,
                   requests, response, call>>

InitScore ==
    /\ call \in ScoreCalls
    /\ out = Pending
    /\ fraud_reports = <<>>
    /\ clock = 0
    /\ GENAI_AVAILABLE = TRUE
    /\ GEMINI_API_KEY = TRUE
    /\ requests = <<>>
    /\ response = None

NextScore == Evaluate

SpecScore == InitScore /\ [][NextScore]_vars

Evaluated == out # Pending

-----------------------------------------------------------------------------
(* Identifier harness: one call of _identifier_pattern_score, on every     *)
(* phone value up to a length over the characters the phone rules look at, *)
(* and on the typed identifiers of the scoring harness.                    *)

MaxPhoneLen == 6

PhoneAlphabet == {"+", "9", "1", "4", "0", " "}

PhoneTexts == UNION {[1..n -> PhoneAlphabet] : n \in 1..MaxPhoneLen}

IdentifierCalls ==
    {[identifier_type |-> "phone", identifier_value |-> v] : v \in PhoneTexts}
    \cup {[identifier_type |-> id[1], identifier_value |-> id[2]] :
              id \in ScoreIdentifiers}

EvaluateIdentifier ==
    /\ out = Pending
    /\ out' = [pending |-> FALSE,
               id |-> _identifier_pattern_score(call.identifier_type,
                                                call.identifier_value)]
    /\ UNCHANGED <<fraud_reports, clock, GENAI_AVAILABLE, GEMINI_API_KEY,
                   requests, response, call>>

InitIdentifier ==
    /\ call \in IdentifierCalls
    /\ out = Pending
    /\ fraud_reports = <<>>
    /\ clock = 0
    /\ GENAI_AVAILABLE = TRUE
    /\ GEMINI_API_KEY = TRUE
    /\ requests = <<>>
    /\ response = None

NextIdentifier == EvaluateIdentifier

SpecIdentifier == InitIdentifier /\ [][NextIdentifier]_vars

-----------------------------------------------------------------------------
(* Claims on the handlers (checked under Spec, C2 under FairSpec) *)

Done(r) == requests[r].pc = "done"

\* the row a completed submission inserted
RowOf(r) == fraud_reports[requests[r].report_id[1]]

AiFactorTexts ==
    {"AI highly confident this is a scam", "AI moderately confident this is a scam",
     "AI suspects this may be a scam", "AI sees some suspicious signals",
     "AI considers this low risk"}

AiFactors(factors) == SelectSeq(factors, LAMBDA f : f.msg \in AiFactorTexts)

C2_SubmissionPersists ==
    /\ \A r \in Requests : (requests[r].pc # "idle") ~> Done(r)
    /\ [](Len(fraud_reports) = Cardinality({r \in Requests : Done(r)}))
    /\ [](\A r1, r2 \in Requests :
              (Done(r1) /\ Done(r2) /\ r1 # r2) =>
                  requests[r1].report_id # requests[r2].report_id)

\* C2 witness: two submissions are persisted, one whose AI analysis failed and
\* one whose AI analysis succeeded.
C2_Witness ==
    \E r1, r2 \in Requests :
        /\ Done(r1) /\ Done(r2)
        /\ requests[r1].ai_result[1].error # None
        /\ requests[r2].ai_result[1].error = None
        /\ Len(fraud_reports) = 2

\* a reply that is no JSON object with a numeric confidence
Malformed(reply) ==
    /\ reply.kind = "text"
    /\ \/ reply.json = None
       \/ reply.json[1].t # "object"
       \/ /\ "confidence" \in DOMAIN reply.json[1].v
          /\ reply.json[1].v["confidence"].t \notin {"num", "bool"}
          /\ reply.json[1].v["confidence"].v \notin DOMAIN DecimalTexts

\* the collaborator-side failures: package missing, no API key, the call
\* raising, a malformed reply
CollaboratorFailed(r) ==
    \/ ~GENAI_AVAILABLE
    \/ ~GEMINI_API_KEY
    \/ requests[r].reply[1].kind = "raise"
    \/ Malformed(requests[r].reply[1])

\* C3: the AI collaborator never raises past its boundary: no handler ends on
\* an exception of analyze_scam_report; on every collaborator-side failure the
\* result is a fallback with is_scam = false, confidence = 0.0 and a non-null
\* error, and the submission that received it persists a report with category
\* "unknown", a non-null ai_analysis.error, no AI sub-score and no AI factor.
C3_FallbackOnFailure ==
    \A r \in Requests :
        /\ requests[r].pc # "failed"
        /\ (requests[r].pc \in {"insert", "done"} /\ CollaboratorFailed(r)) =>
               /\ requests[r].ai_result[1].is_scam = FALSE
               /\ requests[r].ai_result[1].confidence = 0
               /\ requests[r].ai_result[1].error # None
        /\ (Done(r) /\ CollaboratorFailed(r)) =>
               /\ RowOf(r).category = "unknown"
               /\ RowOf(r).ai_analysis.error # None
               /\ AiFactors(RowOf(r).risk_factors) = <<>>
               /\ RowOf(r).risk_score =
                      _keyword_score(RowOf(r).description).score
                      + _identifier_pattern_score(RowOf(r).identifier_type,
                            RowOf(r).identifier_value).score
                      + _report_frequency_score(requests[r].report_count[1]).score

\* C3 witness: a submission whose collaborator call raised has been persisted.
C3_Witness ==
    \E r \in Requests :
        /\ Done(r)
        /\ requests[r].reply # None
        /\ requests[r].reply[1].kind = "raise"
        /\ RowOf(r).category = "unknown"

\* C4: the AI confidence passed to the scoring engine is the AI result's
\* confidence exactly when is_scam is true and is absent otherwise, even when
\* the confidence is greater than 0: the persisted score and factors are those
\* of that input, with no AI factor when is_scam is false.
C4_ConfidenceOnlyWhenScam ==
    \A r \in Requests : Done(r) =>
        LET ai == requests[r].ai_result[1]
            passed == IF ai.is_scam THEN Some(ai.confidence) ELSE None
            risk == calculate_risk_score(requests[r].report[1].identifier_type,
                        requests[r].report[1].identifier_value,
                        requests[r].report[1].description,
                        requests[r].report_count[1], passed)
        IN  /\ RowOf(r).risk_score = risk.score
            /\ RowOf(r).risk_factors = risk.factors
            /\ AiFactors(RowOf(r).risk_factors) =
                   (IF ai.is_scam
                    THEN _ai_confidence_score(Some(ai.confidence)).factors
                    ELSE <<>>)
            /\ RowOf(r).risk_score =
                   _keyword_score(RowOf(r).description).score
                   + _identifier_pattern_score(RowOf(r).identifier_type,
                         RowOf(r).identifier_value).score
                   + _report_frequency_score(requests[r].report_count[1]).score
                   + (IF ai.is_scam
                      THEN _ai_confidence_score(Some(ai.confidence)).score ELSE 0)

\* C4 witness: a persisted submission whose AI result had is_scam = false and
\* confidence 0.95, and whose report carries no AI factor.
C4_Witness ==
    \E r \in Requests :
        /\ Done(r)
        /\ requests[r].ai_result[1].is_scam = FALSE
        /\ requests[r].ai_result[1].confidence = 95
        /\ AiFactors(RowOf(r).risk_factors) = <<>>

C6_Level(score) ==
    CASE score >= 75 -> "CRITICAL"
      [] score \in 50..74 -> "HIGH"
      [] score \in 25..49 -> "MEDIUM"
      [] score \in 0..24 -> "LOW"

\* C6: the risk level of every assessment is determined by its score with the
\* exact thresholds (>= 75 CRITICAL, 50..74 HIGH, 25..49 MEDIUM, 0..24 LOW):
\* every persisted report's risk_level is the level of its own risk_score, and
\* so is the level of every assessment sent in a response.
C6_LevelFromScore ==
    /\ \A i \in 1..Len(fraud_reports) :
           fraud_reports[i].risk_level = C6_Level(fraud_reports[i].risk_score)
    /\ ( /\ response # None
         /\ response[1].kind \in {"submit", "lookup"}
         /\ response[1].risk # None ) =>
           response[1].risk[1].level = C6_Level(response[1].risk[1].score)

\* C6 witness: a report on the upper threshold is stored, scored exactly 75
\* and CRITICAL, next to a report scored under 25 and LOW.
C6_Witness ==
    /\ \E i \in 1..Len(fraud_reports) :
           fraud_reports[i].risk_score = 75 /\ fraud_reports[i].risk_level = "CRITICAL"
    /\ \E i \in 1..Len(fraud_reports) :
           fraud_reports[i].risk_score < 25 /\ fraud_reports[i].risk_level = "LOW"

LookupResponse == response # None /\ response[1].kind = "lookup"

\* C11: round trip: once a report of an identifier has been submitted, a
\* lookup of that identifier, in any letter case and with any surrounding
\* whitespace, returns a count >= 1 and a report list that contains the
\* submitted report.
C11_RoundTrip ==
    LookupResponse =>
        \A r \in Requests :
            ( /\ Done(r)
              /\ Normalize(requests[r].report[1].identifier_value) =
                     Normalize(response[1].identifier) )
            => /\ response[1].report_count >= 1
               /\ \E k \in 1..Len(response[1].reports) :
                      response[1].reports[k] = RowOf(r)

\* C11 witness: a report submitted as " WIN.xyz/bit.ly " is returned by a
\* lookup typed in another letter case and with other whitespace around it.
C11_Witness ==
    /\ LookupResponse
    /\ response[1].identifier = SiteShouted
    /\ response[1].report_count >= 1
    /\ \E r \in Requests :
           /\ Done(r)
           /\ requests[r].report[1].identifier_value = SitePadded
           /\ \E k \in 1..Len(response[1].reports) :
                  response[1].reports[k] = RowOf(r)

\* a submission returns in this step
SubmissionReturns ==
    \E r \in Requests : requests[r].pc = "insert" /\ requests'[r].pc = "done"

\* C12: reports are append-only and historical scores are never backfilled:
\* every step leaves every field of every stored report unchanged, a returning
\* submission adds exactly one record (and nothing else adds one), and a lookup
\* or an analysis-only request changes no stored report at all.
C12_AppendOnly ==
    [][ /\ Len(fraud_reports') >= Len(fraud_reports)
        /\ SubSeq(fraud_reports', 1, Len(fraud_reports)) = fraud_reports
        /\ SubmissionReturns <=> (Len(fraud_reports') = Len(fraud_reports) + 1)
        /\ ~SubmissionReturns => fraud_reports' = fraud_reports
        /\ ( /\ response' # None
             /\ response'[1].kind \in {"lookup", "analysis", "error"} )
           => fraud_reports' = fraud_reports ]_vars

\* C12 witness: two reports of one identifier are stored and a lookup has just
\* assessed the identifier with a score that is not the first report's: the
\* first report still carries the score of its own creation.
C12_Witness ==
    /\ LookupResponse
    /\ Len(fraud_reports) = 2
    /\ fraud_reports[1].identifier_value = fraud_reports[2].identifier_value
    /\ response[1].report_count = 2
    /\ fraud_reports[1].risk_score # response[1].risk[1].score
    /\ fraud_reports[1].risk_score # fraud_reports[2].risk_score

\* the stored reports of the identifier a lookup was made for
StoredFor(identifier) ==
    {i \in 1..Len(fraud_reports) :
        fraud_reports[i].identifier_value = Normalize(identifier)}

\* those of them that no other one was reported after
MostRecent(identifier) ==
    {i \in StoredFor(identifier) : \A j \in StoredFor(identifier) :
        fraud_reports[i].reported_at >= fraud_reports[j].reported_at}

\* C13: a lookup returns report_count equal to the number of stored reports
\* whose identifier equals the normalized lookup identifier; the risk is
\* absent exactly when that count is 0, and otherwise it is the scoring
\* engine's result for the most recently reported record's identifier type and
\* description, the total count as prior count, and the AI confidence absent.
C13_LookupAssessment ==
    LookupResponse =>
        LET identifier == response[1].identifier
            n == Cardinality(StoredFor(identifier))
        IN  /\ response[1].report_count = n
            /\ Len(response[1].reports) = n
            /\ (response[1].risk = None) <=> (n = 0)
            /\ n > 0 =>
                   \E i \in MostRecent(identifier) :
                       response[1].risk[1] =
                           calculate_risk_score(fraud_reports[i].identifier_type,
                               identifier, fraud_reports[i].description, n, None)

\* C13 witness: two reports of one identifier, of different types and with
\* different descriptions, are stored at different instants, and a lookup has
\* returned the assessment that the later one gives and the earlier one
\* would not.
C13_Witness ==
    /\ LookupResponse
    /\ response[1].report_count = 2
    /\ Len(fraud_reports) = 2
    /\ fraud_reports[1].reported_at < fraud_reports[2].reported_at
    /\ fraud_reports[1].identifier_type # fraud_reports[2].identifier_type
    /\ response[1].risk[1] =
           calculate_risk_score(fraud_reports[2].identifier_type,
               response[1].identifier, fraud_reports[2].description, 2, None)
    /\ response[1].risk[1] #
           calculate_risk_score(fraud_reports[1].identifier_type,
               response[1].identifier, fraud_reports[1].description, 2, None)

FrequencyFactorTexts ==
    {"Previously reported once", "Reported N times before",
     "Frequently reported (N times)",
     "Heavily reported (N times) - likely confirmed scam"}

FrequencyFactors(factors) ==
    SelectSeq(factors, LAMBDA f : f.msg \in FrequencyFactorTexts)

\* the first stored report of an identifier that has one
FirstStoredFor(identifier) ==
    CHOOSE i \in StoredFor(identifier) : \A j \in StoredFor(identifier) : i <= j

\* C16: after any sequence of submissions, a lookup of an identifier that has
\* at least one stored report never returns the sentinel factor and never
\* returns a score below 5: its assessment contains exactly one frequency
\* factor, whereas the first stored report of that identifier was scored with
\* prior count 0 and carries no frequency factor.
C16_LookupHasFrequencyFactor ==
    (LookupResponse /\ StoredFor(response[1].identifier) # {}) =>
        /\ response[1].risk # None
        /\ response[1].risk[1].score >= 5
        /\ \A k \in 1..Len(response[1].risk[1].factors) :
               response[1].risk[1].factors[k] # NoFactors
        /\ Len(FrequencyFactors(response[1].risk[1].factors)) = 1
        /\ \E r \in Requests :
               /\ Done(r)
               /\ requests[r].report_id[1] = FirstStoredFor(response[1].identifier)
               /\ requests[r].report_count[1] = 0
               /\ FrequencyFactors(RowOf(r).risk_factors) = <<>>

\* C16 witness: the only stored report of an identifier has score 0 and the
\* sentinel as its factor, and a lookup of the identifier returns score 5 with
\* the factor "Previously reported once".
C16_Witness ==
    /\ LookupResponse
    /\ response[1].report_count = 1
    /\ response[1].reports[1].risk_score = 0
    /\ response[1].reports[1].risk_factors = <<NoFactors>>
    /\ response[1].risk[1].score = 5
    /\ response[1].risk[1].factors = << Factor("Previously reported once", <<>>) >>

-----------------------------------------------------------------------------
(* Claims on the scoring functions (checked under SpecScore) *)

\* C5: for every input of calculate_risk_score (any identifier type and value,
\* description, prior count >= 0, AI confidence present or absent) the risk
\* score is an integer in [0,100].
C5_ScoreInRange == Evaluated => out.risk.score \in 0..100

\* C5 witness: a call whose four sub-scores are all at their maximum, so the
\* total sits on the upper end of the range.
C5_Witness ==
    /\ Evaluated
    /\ out.kw.score = 30 /\ out.id.score = 25
    /\ out.freq.score = 25 /\ out.ai.score = 20
    /\ out.risk.score = 100

\* C7: for identifier_type "phone", value "+91 140 1234567", prior count 0 and
\* no AI, the identifier sub-score includes the +15 prefix bonus and a factor
\* naming the matched prefix.
C7_SpacedPrefixBonus ==
    ( /\ Evaluated
      /\ call.identifier_type = "phone"
      /\ call.identifier_value = PhoneSpaced
      /\ call.report_count = 0
      /\ call.ai_confidence = None )
    => /\ out.id.score >= 15
       /\ \E i \in 1..Len(out.id.factors) :
              /\ out.id.factors[i].msg = "Phone number starts with known spam prefix"
              /\ out.id.factors[i].args \in
                     {<<SCAM_PHONE_PREFIXES[j]>> : j \in 1..Len(SCAM_PHONE_PREFIXES)}

\* the terms of the keyword list that occur in the description when letter
\* case is ignored on both sides
MatchedTerms(description) ==
    LET folded == [i \in 1..Len(description) |-> LowerChar(description[i])]
    IN  {kw \in Range(SCAM_KEYWORDS) :
            \E i \in 1..Len(folded) :
                /\ i + Len(kw) - 1 <= Len(folded)
                /\ \A j \in 1..Len(kw) : folded[i + j - 1] = LowerChar(kw[j])}

C8_SubScoreFormula ==
    Evaluated =>
        out.kw.score = Min(5 * Cardinality(MatchedTerms(call.description)), 30)

C8_FiveTerms ==
    { <<"u","r","g","e","n","t">>, <<"b","l","o","c","k","e","d">>,
      <<"v","e","r","i","f","y">>, <<"k","y","c">>, <<"u","p","i">> }

\* C8 (as amended): the keyword sub-score is min(5*k, 30), k the number of
\* distinct listed terms occurring case-insensitively in the description; for
\* the "URGENT! ..." description the matched set is {urgent, blocked, verify,
\* kyc, upi, account} and the sub-score is 30.
C8_KeywordScore ==
    /\ C8_SubScoreFormula
    /\ (Evaluated /\ call.description = DescUrgent) =>
           /\ Range(found_keywords(call.description)) =
                  C8_FiveTerms \cup { <<"a","c","c","o","u","n","t">> }
           /\ out.kw.score = 30

\* C8 (as claimed): the same formula, with the matched set of the "URGENT! ..."
\* description being {urgent, blocked, verify, kyc, upi} and the sub-score 25.
C8_Original ==
    /\ C8_SubScoreFormula
    /\ (Evaluated /\ call.description = DescUrgent) =>
           /\ Range(found_keywords(call.description)) = C8_FiveTerms
           /\ out.kw.score = 25

\* C8 witness: the "URGENT! ..." description has been scored.
C8_Witness ==
    /\ Evaluated
    /\ call.description = DescUrgent
    /\ out.kw.score = 30
    /\ Len(out.kw.factors) = 1

C9_Bucket(n) ==
    CASE n = 0 -> 0
      [] n = 1 -> 5
      [] n \in 2..3 -> 15
      [] n \in 4..10 -> 20
      [] n > 10 -> 25

\* C9: for every prior report count >= 0 exactly one frequency bucket applies:
\* 0 gives 0 and no factor, 1 gives 5, 2..3 gives 15, 4..10 gives 20, more than
\* 10 gives 25, each non-zero bucket with exactly one factor (counts
\* 0,1,2,3,4,10,11 map to 0,5,15,15,20,20,25).
C9_FrequencyBuckets ==
    Evaluated =>
        /\ out.freq.score = C9_Bucket(call.report_count)
        /\ Len(out.freq.factors) = (IF call.report_count = 0 THEN 0 ELSE 1)
        /\ \A p \in { <<0, 0>>, <<1, 5>>, <<2, 15>>, <<3, 15>>, <<4, 20>>,
                      <<10, 20>>, <<11, 25>> } :
               call.report_count = p[1] => out.freq.score = p[2]

\* C9 witness: a count above 10 has been scored.
C9_Witness ==
    /\ Evaluated
    /\ call.report_count = 11
    /\ out.freq.score = 25
    /\ Len(out.freq.factors) = 1

\* C10: the AI-confidence sub-score is 0 with no factor when the confidence is
\* absent; otherwise 20 for >= 0.90, 15 for >= 0.70, 10 for >= 0.50, 5 for
\* >= 0.30 and 0 below 0.30, with exactly one AI factor in every present case.
C10_AiBuckets ==
    Evaluated =>
        IF call.ai_confidence = None
        THEN out.ai = [score |-> 0, factors |-> <<>>]
        ELSE LET c == call.ai_confidence[1]
             IN  /\ Len(out.ai.factors) = 1
                 /\ c >= 90 => out.ai.score = 20
                 /\ (c >= 70 /\ c < 90) => out.ai.score = 15
                 /\ (c >= 50 /\ c < 70) => out.ai.score = 10
                 /\ (c >= 30 /\ c < 50) => out.ai.score = 5
                 /\ c < 30 => out.ai.score = 0

\* C10 witness: a present confidence just below 0.30 scored 0 and still
\* produced its factor.
C10_Witness ==
    /\ Evaluated
    /\ call.ai_confidence = Some(29)
    /\ out.ai.score = 0
    /\ Len(out.ai.factors) = 1


\* C14: the factors of every assessment are the concatenation of the
\* sub-component factors in the order keyword, identifier, frequency, AI; the
\* list is never empty, and the sentinel "No significant risk factors
\* detected" is its sole element exactly when no sub-component emitted a
\* factor, and is no element of it otherwise (so a score of 0 with a present
\* low AI confidence carries the AI factor, not the sentinel).
C14_FactorsInOrder ==
    Evaluated =>
        LET emitted == out.kw.factors \o out.id.factors \o out.freq.factors
                       \o out.ai.factors
        IN  /\ out.risk.factors # <<>>
            /\ emitted # <<>> => out.risk.factors = emitted
            /\ (out.risk.factors = <<NoFactors>>) <=> (emitted = <<>>)
            /\ emitted # <<>> =>
                   \A i \in 1..Len(out.risk.factors) : out.risk.factors[i] # NoFactors
            /\ (out.risk.score = 0 /\ call.ai_confidence # None) =>
                   out.risk.factors = out.ai.factors

\* C14 witness: an assessment with score 0 whose only factor is the AI's
\* "low risk" factor, for a confidence of 0.29.
C14_Witness ==
    /\ Evaluated
    /\ out.risk.score = 0
    /\ call.ai_confidence = Some(29)
    /\ Len(out.risk.factors) = 1
    /\ out.risk.factors[1].msg = "AI considers this low risk"

-----------------------------------------------------------------------------
(* Claims on the identifier rules (checked under SpecIdentifier) *)

\* the value the phone rules read: trimmed and lower-cased
C15_Value == Lower(Strip(call.identifier_value))

\* the value starts with a spam prefix: "+91 140" without its space, or "140"
C15_Spam ==
    \/ StartsWith(C15_Value, <<"+","9","1","1","4","0">>)
    \/ StartsWith(C15_Value, <<"1","4","0">>)

\* the value starts with "+" but not with "+91"
C15_International ==
    /\ StartsWith(C15_Value, <<"+">>)
    /\ ~StartsWith(C15_Value, <<"+","9","1">>)

\* C15: for identifier_type "phone" the spam-prefix bonus (+15) and the
\* international-number bonus (+10, value starts with "+" but not "+91") are
\* summed, but no phone value earns both: a value with a spam prefix starts
\* with "+91" or with "1", so the phone sub-score is 0, 10 or 15; and for every
\* (type, value) pair the identifier sub-score never exceeds 25.
C15_PhoneBonusesExclusive ==
    Evaluated =>
        /\ out.id.score \in 0..25
        /\ call.identifier_type = "phone" =>
               /\ ~(C15_Spam /\ C15_International)
               /\ out.id.score = (IF C15_Spam THEN 15 ELSE 0)
                                 + (IF C15_International THEN 10 ELSE 0)
               /\ out.id.score \in {0, 10, 15}
               /\ Len(out.id.factors) = (IF out.id.score = 0 THEN 0 ELSE 1)

\* C15 (as claimed): there are phone values for which both bonuses apply at
\* once, giving an identifier sub-score of 25, and the identifier sub-score
\* never exceeds 25.
C15_Original ==
    /\ \E v \in PhoneTexts : _identifier_pattern_score("phone", v).score = 25
    /\ Evaluated => out.id.score <= 25

\* C15 witness: a phone value written with "+" earns the spam-prefix bonus and
\* nothing else.
C15_Witness ==
    /\ Evaluated
    /\ call.identifier_type = "phone"
    /\ C15_Spam
    /\ StartsWith(C15_Value, <<"+">>)
    /\ out.id.score = 15

=============================================================================
